---- MODULE Spec2Model ----
(***************************************************************************)
(* Model of the Telegram media extractor bot.                              *)
(*                                                                         *)
(*   SpecResolve  MediaExtractor.extract_media_from_url and the strategies *)
(*                it drives (src/media_extractor.py)                       *)
(*   SpecTracker  the auto-delete worker thread against the handler's      *)
(*                insert into sent_messages (src/bot.py)                   *)
(*   SpecDeliver  TelegramMediaBot._process_url and _send_media_file       *)
(*                (src/bot.py)                                             *)
(*   SpecSelect   MediaExtractor._extract_with_ytdlp step by step, with    *)
(*                the rendition loop (src/media_extractor.py)              *)
(*   SpecPage     the candidate URLs _scrape_media_from_page collects from  *)
(*                a parsed page (src/media_extractor.py)                   *)
(*   SpecHandle   TelegramMediaBot.handle_url_message and the _process_url *)
(*                calls it awaits (src/bot.py)                             *)
(*                                                                         *)
(* Byte counts are measured in chunks of iter_content; the three size      *)
(* ceilings of config.py are scaled down to a few chunks, keeping their    *)
(* order (photo < video = document), so that the streaming loop crosses    *)
(* them.  Times are in seconds.                                            *)
(***************************************************************************)
EXTENDS Integers, Sequences, FiniteSets, TLC

VARIABLES
    \* ---- MediaExtractor ----
    rpc,            \* position in extract_media_from_url
    url,            \* its argument
    isDirect,       \* what _is_direct_media_url answered: "unknown", "yes", "no"
    probe,          \* what the HEAD request of _check_content_type met ("none" before it)
    strategies,     \* the strategies invoked so far, in order, with their outcome
    net,            \* the network operations issued so far, in order
    result,         \* the list extract_media_from_url returned
    error,          \* the failure extract_media_from_url raised ("" if none)
    dl,             \* the running _download_direct_media call
    sc,             \* the running _scrape_media_from_page call
    tempFiles,      \* temporary artifacts on disk
    fetches,        \* finished _download_direct_media calls, in order
    \* ---- the tracked-message table (TelegramMediaBot.sent_messages) ----
    now,            \* time.time()
    sent_messages,  \* message key -> [sent_time, warned, filename]
    nextId,         \* the message_id the chat platform gives the next sent message
    \* ---- auto_delete_worker (the sweep thread) ----
    wpc,            \* "start", "scan", "warn", "delete", "sleep", "dead"
    current_time,   \* line 35
    iter,           \* the iterator of the running pass
    messages_to_delete, \* line 38
    wakeAt,         \* when time.sleep(600) returns
    warnings,       \* message key -> number of warnings scheduled for it
    deleted,        \* message keys a delete request was scheduled for
    warned_in_pass, \* message keys the running (or last) pass scheduled a warning for
    \* ---- _process_url and _send_media_file (the handler) ----
    ppc,            \* position in _process_url
    media_files,    \* line 230
    idx,            \* index of media_info in the send loop
    sent_count,     \* line 245
    files,          \* file_path of the artifacts still on disk
    media_type,     \* _send_media_file's local
    sends,          \* send calls of the running _send_media_file, with outcome
    tableAtCall,    \* sent_messages when the running _send_media_file began
    outcome,        \* per descriptor: "pending", "sent", "failed"
    cleanups,       \* per descriptor: number of cleanup_temp_file calls
    \* ---- _extract_with_ytdlp, step by step ----
    fpc,            \* "idle", "loop", "download", "returned", "none"
    formats,        \* line 177
    fidx,           \* position of fmt in the loop of line 183
    best_format,    \* index in formats of best_format, 0 for None
    ydl,            \* the calls made to the engine, in order
    \* ---- _scrape_media_from_page: the candidates of a page ----
    qpc,            \* the block of lines 255-313 that runs next
    soup,           \* the parsed page
    collected,      \* media_urls, each URL with the block that added it
    \* ---- handle_url_message ----
    hpc,            \* position in handle_url_message and in the _process_url it awaits
    text,           \* the URL-shaped tokens of the message text, in order
    urls,           \* line 191, then the part of urls[:3] not processed yet
    hlog            \* the _process_url calls: begin, resolution, end, in order

resolveVars == <<rpc, url, isDirect, probe, strategies, net, result, error, dl, sc,
                 tempFiles, fetches>>

tableVars == <<now, sent_messages, nextId>>

workerVars == <<wpc, current_time, iter, messages_to_delete, wakeAt, warnings, deleted,
                warned_in_pass>>

deliverVars == <<ppc, media_files, idx, sent_count, files, media_type, sends,
                 tableAtCall, outcome, cleanups>>

selectVars == <<fpc, formats, fidx, best_format, ydl>>

pageVars == <<qpc, soup, collected>>

handleVars == <<hpc, text, urls, hlog>>

vars == <<resolveVars, tableVars, workerVars, deliverVars, selectVars, pageVars, handleVars>>

----------------------------------------------------------------------------
\* Bounds and scaled ceilings

MAX_PHOTO_SIZE == 1
MAX_VIDEO_SIZE == 3
MAX_DOCUMENT_SIZE == 3
MaxBody == MAX_DOCUMENT_SIZE + 2
MaxCandidates == 6
MaxDownloads == 5
MaxMsgs == 2
MaxMedia == 2
MaxFormats == 3
MaxTokens == 5
MaxUrls == 3
MaxQuality == 1
TimeStep == 200
MaxSendTime == 800
MaxTime == 4400
AUTO_DELETE_AFTER_HOURS == 1
WarnWindow == 300
SweepInterval == 600

----------------------------------------------------------------------------
\* config.py, utils.py

SUPPORTED_IMAGE_FORMATS == {".jpg", ".jpeg", ".png", ".gif", ".webp", ".bmp"}
SUPPORTED_VIDEO_FORMATS == {".mp4", ".avi", ".mov", ".mkv", ".webm", ".m4v"}

Exts == {".jpg", ".mp4", ".html", ""}

Urls == [scheme : {"", "https"}, netloc : {"", "x.test"}, name : {0}, ext : Exts]

CandidateUrls ==
    [scheme : {"https"}, netloc : {"x.test"}, name : 1..MaxCandidates, ext : {".jpg"}]

NoUrl == [scheme |-> "", netloc |-> "", name |-> 0, ext |-> ""]

validate_url_any(u) == u.scheme # "" \/ u.netloc # ""

validate_url(u) == u.scheme # "" /\ u.netloc # ""

\* a URL is [scheme, netloc, name, ext]: ext is the suffix of its path
get_file_extension_from_url(u) == u.ext

is_supported_media(u) ==
    \/ get_file_extension_from_url(u) \in SUPPORTED_IMAGE_FORMATS
    \/ get_file_extension_from_url(u) \in SUPPORTED_VIDEO_FORMATS

is_image(ext) == ext \in SUPPORTED_IMAGE_FORMATS

is_video(ext) == ext \in SUPPORTED_VIDEO_FORMATS

\* content-type header values; "" is an absent header
ContentTypes == {"image/jpeg", "video/mp4", "text/html", "application/octet-stream", ""}

StartsWithImage(ct) == ct \in {"image/jpeg"}
StartsWithVideo(ct) == ct \in {"video/mp4"}
StartsWithHtml(ct) == ct \in {"text/html"}

\* mimetypes.guess_extension; "" stands for None
get_file_extension_from_content_type(ct) ==
    CASE ct = "image/jpeg" -> ".jpg"
      [] ct = "video/mp4" -> ".mp4"
      [] ct = "text/html" -> ".html"
      [] ct = "application/octet-stream" -> ".bin"
      [] OTHER -> ""

\* the extension of the name get_filename_from_url yields ("" for media_<hash>)
get_filename_from_url(u) == u.ext

----------------------------------------------------------------------------
\* MediaExtractor: inputs

HeadOutcomes == {"raises"} \cup ContentTypes

ErrorResponse ==
    [status |-> "error", has_length |-> FALSE, length |-> 0,
     content_type |-> "", body |-> 0, html |-> FALSE]

OkResponses ==
    {r \in [status : {"ok"}, has_length : BOOLEAN, length : 0..MaxBody,
            content_type : ContentTypes, body : 0..MaxBody, html : BOOLEAN] :
        /\ (~r.has_length => r.length = 0)
        /\ (r.html => r.body >= 1)}

Responses == {ErrorResponse} \cup OkResponses

\* what a candidate found on a scraped page answers: a failure or an image
PageResponses ==
    {ErrorResponse} \cup
    {r \in OkResponses : /\ ~r.has_length
                         /\ r.body = 1
                         /\ r.content_type = "image/jpeg"
                         /\ ~r.html}

\* the candidate sets a scraped page yields: its first k candidates
PageSets == {{c \in CandidateUrls : c.name <= k} : k \in 0..MaxCandidates}

\* the interpreter's string hash seeds
HashSeeds == 0..(MaxCandidates - 1)

EngineFailures == [kind : {"raises", "no_info", "empty_playlist", "no_formats",
                    "download_error", "no_media_file"},
            size : {0}, ext : {""}]

EngineOutcomes ==
    EngineFailures \cup [kind : {"files"}, size : 1..MaxBody, ext : {".mp4", ".jpg"}]

InvalidURL == "Invalid URL format"
NoMediaFound == "No supported media found on this URL"
TooLargeDeclared == "File too large"
TooLargeStreamed == "File too large during download"
NotMedia == "Downloaded content is HTML, not media"
FetchError == "request failed"

DlOff == [pc |-> "off", caller |-> "", url |-> NoUrl, resp |-> ErrorResponse, content |-> 0]
ScOff == [pc |-> "off", media_urls |-> {}, world |-> [c \in {} |-> ErrorResponse],
          chosen |-> <<>>, todo |-> <<>>, downloaded |-> <<>>]

----------------------------------------------------------------------------
\* MediaExtractor.extract_media_from_url: the orchestrator

Invoke(strats, name) ==
    Append(strats, [name |-> name, status |-> "running", found |-> <<>>])

Settle(strats, status, found) ==
    [strats EXCEPT ![Len(strats)] = [@ EXCEPT !.status = status, !.found = found]]

\* line 45: the direct fetcher is entered only on a true classifier
AfterClassifier(direct) == IF direct THEN "direct" ELSE "ytdlp"

AfterPlatform_no_return(mf) == "scrape"

AfterPlatform_raise_on_none(mf) == IF mf # <<>> THEN "returned" ELSE "raised"

\* lines 49-51: a non-empty platform result is returned at once
AfterPlatform(mf) == IF mf # <<>> THEN "returned" ELSE "scrape"

AfterScraper_no_raise(mf) == "returned"

\* lines 54-58: a non-empty scraper result is returned, else the aggregate failure
AfterScraper(mf) == IF mf # <<>> THEN "returned" ELSE "raised"

check_content_type_error_is_media(head) ==
    IF head = "raises" THEN TRUE
    ELSE StartsWithImage(head) \/ StartsWithVideo(head)

\* lines 69-80: a failing probe is "not media"; among ContentTypes the
\* substring tests of line 77 accept what the prefix tests accept
check_content_type(head) ==
    IF head = "raises" THEN FALSE
    ELSE StartsWithImage(head) \/ StartsWithVideo(head)

\* lines 35-40
extract_media_from_url(u) ==
    /\ rpc = "idle"
    /\ url' = u
    /\ IF ~validate_url(u)
         THEN rpc' = "raised" /\ error' = InvalidURL
         ELSE rpc' = "classify" /\ error' = ""
    /\ UNCHANGED <<isDirect, probe, strategies, net, result, dl, sc, tempFiles, fetches>>
    /\ UNCHANGED <<tableVars, workerVars, deliverVars, selectVars, pageVars, handleVars>>

\* lines 45, 64-67
is_direct_media_url ==
    /\ rpc = "classify"
    /\ \/ /\ is_supported_media(url)
          /\ isDirect' = "yes"
          /\ rpc' = AfterClassifier(TRUE)
          /\ UNCHANGED <<net, probe>>
       \/ /\ ~is_supported_media(url)
          /\ \E head \in HeadOutcomes :
                /\ net' = Append(net, "HEAD")
                /\ probe' = head
                /\ isDirect' = IF check_content_type(head) THEN "yes" ELSE "no"
                /\ rpc' = AfterClassifier(check_content_type(head))
    /\ UNCHANGED <<url, strategies, result, error, dl, sc, tempFiles, fetches>>
    /\ UNCHANGED <<tableVars, workerVars, deliverVars, selectVars, pageVars, handleVars>>

----------------------------------------------------------------------------
\* MediaExtractor._download_direct_media

DeclaredTooLarge(resp) == resp.has_length /\ resp.length > MAX_DOCUMENT_SIZE

StreamTooLarge_unchecked(n) == FALSE

\* line 103
StreamTooLarge(n) == n > MAX_DOCUMENT_SIZE

IsHtml_header_only(resp) == StartsWithHtml(resp.content_type)

\* line 108
IsHtml(resp) == StartsWithHtml(resp.content_type) \/ resp.html

\* lines 96-97, 115-125: the suffix of the temporary file
TempSuffix(u, resp) ==
    IF StartsWithImage(resp.content_type) THEN ".jpg"
    ELSE IF get_file_extension_from_content_type(resp.content_type) # ""
         THEN get_file_extension_from_content_type(resp.content_type)
         ELSE get_file_extension_from_url(u)

\* lines 129-140
MediaType(u, resp) ==
    IF \/ StartsWithImage(resp.content_type)
       \/ is_image(TempSuffix(u, resp))
       \/ is_image(get_file_extension_from_url(u))
       \/ get_filename_from_url(u) \in {".jpg", ".jpeg", ".png", ".gif", ".webp", ".bmp"}
    THEN "image"
    ELSE IF \/ StartsWithVideo(resp.content_type)
            \/ is_video(TempSuffix(u, resp))
            \/ is_video(get_file_extension_from_url(u))
            \/ get_filename_from_url(u) \in {".mp4", ".avi", ".mov", ".mkv", ".webm", ".m4v"}
    THEN "video"
    ELSE "document"

\* lines 142-149
MediaInfo(path, u, resp, n) ==
    [file_path |-> path, filename |-> get_filename_from_url(u), size |-> n,
     type |-> MediaType(u, resp), url |-> u, content_type |-> resp.content_type]

\* utils.py create_temp_file
create_temp_file(path, n, u) == [path |-> path, size |-> n, url |-> u, by |-> "direct"]

Raise_abort_loop(caller, strats, err) ==
    IF caller = "orch"
    THEN /\ rpc' = "raised"
         /\ error' = err
         /\ strategies' = Settle(strats, "raised", <<>>)
         /\ UNCHANGED <<sc, result>>
    ELSE /\ sc' = [sc EXCEPT !.todo = <<>>]
         /\ strategies' = strats
         /\ UNCHANGED <<rpc, error, result>>

\* lines 154-156 and the caller's handling: the orchestrator lets the failure
\* through (lines 60-62), the scraper's loop skips the candidate (lines 321-323)
Raise(caller, strats, err) ==
    IF caller = "orch"
    THEN /\ rpc' = "raised"
         /\ error' = err
         /\ strategies' = Settle(strats, "raised", <<>>)
         /\ UNCHANGED <<sc, result>>
    ELSE /\ sc' = [sc EXCEPT !.todo = Tail(@)]
         /\ strategies' = strats
         /\ UNCHANGED <<rpc, error, result>>

\* line 152 and the caller's handling (line 46, line 320)
Return(caller, strats, media) ==
    IF caller = "orch"
    THEN /\ rpc' = "returned"
         /\ result' = media
         /\ strategies' = Settle(strats, "found", media)
         /\ UNCHANGED <<sc, error>>
    ELSE /\ sc' = [sc EXCEPT !.todo = Tail(@), !.downloaded = @ \o media]
         /\ strategies' = strats
         /\ UNCHANGED <<rpc, error, result>>

Fails(caller, u, resp, strats, err) ==
    /\ dl' = DlOff
    /\ fetches' = Append(fetches, [url |-> u, resp |-> resp, body |-> resp.body,
                                   outcome |-> err])
    /\ UNCHANGED tempFiles
    /\ Raise(caller, strats, err)

\* lines 85-93: the GET, raise_for_status and the declared-length check
download_direct_media ==
    /\ dl.pc = "off"
    /\ \/ rpc = "direct"
       \/ rpc = "scrape" /\ sc.pc = "loop" /\ sc.todo # <<>>
    /\ LET caller == IF rpc = "direct" THEN "orch" ELSE "scraper"
           u == IF rpc = "direct" THEN url ELSE Head(sc.todo)
           strats == IF rpc = "direct" THEN Invoke(strategies, "direct") ELSE strategies
       IN \E resp \in IF caller = "orch" THEN Responses ELSE {sc.world[u]} :
            /\ net' = Append(net, "GET")
            /\ IF resp.status = "error"
                 THEN Fails(caller, u, resp, strats, FetchError)
                 ELSE IF DeclaredTooLarge(resp)
                 THEN Fails(caller, u, resp, strats, TooLargeDeclared)
                 ELSE /\ dl' = [pc |-> "stream", caller |-> caller, url |-> u,
                                resp |-> resp, content |-> 0]
                      /\ strategies' = strats
                      /\ UNCHANGED <<rpc, error, result, sc, fetches, tempFiles>>
    /\ UNCHANGED <<url, isDirect, probe>>
    /\ UNCHANGED <<tableVars, workerVars, deliverVars, selectVars, pageVars, handleVars>>

\* lines 101-104: one chunk of the body
iter_content ==
    /\ dl.pc = "stream"
    /\ dl.content < dl.resp.body
    /\ \E got \in {"chunk", "reset"} :
         IF got = "reset"
         THEN Fails(dl.caller, dl.url, dl.resp, strategies, FetchError)
         ELSE IF StreamTooLarge(dl.content + 1)
         THEN Fails(dl.caller, dl.url, dl.resp, strategies, TooLargeStreamed)
         ELSE /\ dl' = [dl EXCEPT !.content = @ + 1]
              /\ UNCHANGED <<rpc, error, result, sc, fetches, tempFiles, strategies>>
    /\ UNCHANGED <<url, isDirect, probe, net>>
    /\ UNCHANGED <<tableVars, workerVars, deliverVars, selectVars, pageVars, handleVars>>

\* lines 106-152: the body is complete
finish_download ==
    /\ dl.pc = "stream"
    /\ dl.content = dl.resp.body
    /\ IF IsHtml(dl.resp)
         THEN Fails(dl.caller, dl.url, dl.resp, strategies, NotMedia)
         ELSE LET path == Cardinality(tempFiles) + 1
              IN /\ tempFiles' = tempFiles \cup {create_temp_file(path, dl.content, dl.url)}
                 /\ fetches' = Append(fetches, [url |-> dl.url, resp |-> dl.resp,
                                                body |-> dl.resp.body, outcome |-> "ok"])
                 /\ dl' = DlOff
                 /\ Return(dl.caller, strategies,
                           <<MediaInfo(path, dl.url, dl.resp, dl.content)>>)
    /\ UNCHANGED <<url, isDirect, probe, net>>
    /\ UNCHANGED <<tableVars, workerVars, deliverVars, selectVars, pageVars, handleVars>>

----------------------------------------------------------------------------
\* MediaExtractor._extract_with_ytdlp

\* lines 160-227: every failure is None, a download yields one descriptor per file
YtdlpResult(out, path, u) ==
    IF out.kind = "files"
    THEN <<[file_path |-> path, filename |-> out.ext, size |-> out.size,
            type |-> IF is_video(out.ext) THEN "video" ELSE "image",
            url |-> u, content_type |-> ""]>>
    ELSE <<>>

extract_with_ytdlp ==
    /\ rpc = "ytdlp"
    /\ \E out \in EngineOutcomes :
         LET path == Cardinality(tempFiles) + 1
             mf == YtdlpResult(out, path, url)
         IN /\ net' = Append(net, "ENGINE")
            /\ tempFiles' = IF out.kind = "files"
                              THEN tempFiles \cup {[path |-> path, size |-> out.size,
                                                   url |-> url, by |-> "ytdlp"]}
                              ELSE tempFiles
            /\ rpc' = AfterPlatform(mf)
            /\ result' = IF AfterPlatform(mf) = "returned" THEN mf ELSE result
            /\ strategies' = Settle(Invoke(strategies, "platform"),
                                    IF mf # <<>> THEN "found" ELSE "none",
                                    mf)
    /\ UNCHANGED <<url, isDirect, probe, error, dl, sc, fetches>>
    /\ UNCHANGED <<tableVars, workerVars, deliverVars, selectVars, pageVars, handleVars>>

----------------------------------------------------------------------------
\* MediaExtractor._extract_with_ytdlp, step by step

\* a rendition the engine reports; 0 stands for an absent or None size, and
\* quality 0 for an absent quality (the default of line 186)
Formats == [filesize : {0, MAX_VIDEO_SIZE, MAX_VIDEO_SIZE + 1},
            filesize_approx : {0, MAX_VIDEO_SIZE},
            quality : 0..MaxQuality]

FormatLists == UNION {[1..n -> Formats] : n \in 0..MaxFormats}

\* what extract_info(url, download=False) yields
InfoOutcomes ==
    [kind : {"raises", "no_info", "empty_playlist"}, formats : {<<>>}]
       \cup [kind : {"video", "playlist"}, formats : FormatLists]

DownloadOutcomes == {"raises", "no_media_file", "files"}

\* line 184: fmt.get('filesize') or fmt.get('filesize_approx', 0)
filesize(fmt) == IF fmt.filesize # 0 THEN fmt.filesize ELSE fmt.filesize_approx

\* line 185
FitsBudget(fmt) == filesize(fmt) # 0 /\ filesize(fmt) <= MAX_VIDEO_SIZE

Better_lower_quality(fmt, best) == best = 0 \/ fmt.quality < formats[best].quality

\* line 186: not best_format or quality > best_format's quality
Better(fmt, best) == best = 0 \/ fmt.quality > formats[best].quality

\* lines 161-179: extract_info, the playlist's first entry, the formats
extract_info ==
    /\ fpc = "idle"
    /\ \E info \in InfoOutcomes :
         /\ ydl' = Append(ydl, "extract_info")
         /\ formats' = info.formats
         /\ fpc' = IF info.formats = <<>> THEN "none" ELSE "loop"
    /\ fidx' = 1
    /\ best_format' = 0
    /\ UNCHANGED <<resolveVars, tableVars, workerVars, deliverVars, pageVars, handleVars>>

\* lines 183-187: one rendition of the loop
select_format ==
    /\ fpc = "loop"
    /\ fidx <= Len(formats)
    /\ best_format' = IF FitsBudget(formats[fidx]) /\ Better(formats[fidx], best_format)
                        THEN fidx
                        ELSE best_format
    /\ fidx' = fidx + 1
    /\ UNCHANGED <<fpc, formats, ydl>>
    /\ UNCHANGED <<resolveVars, tableVars, workerVars, deliverVars, pageVars, handleVars>>

\* lines 189-193: without a rendition within the budget the first one is
\* taken; a selection leads to the download
select_fallback ==
    /\ fpc = "loop"
    /\ fidx > Len(formats)
    /\ best_format' = IF best_format = 0
                        THEN (IF formats # <<>> THEN 1 ELSE 0)
                        ELSE best_format
    /\ fpc' = IF best_format' # 0 THEN "download" ELSE "none"
    /\ UNCHANGED <<formats, fidx, ydl>>
    /\ UNCHANGED <<resolveVars, tableVars, workerVars, deliverVars, pageVars, handleVars>>

\* lines 195-227: the download and the files it left
ydl_download ==
    /\ fpc = "download"
    /\ ydl' = Append(ydl, "download")
    /\ \E got \in DownloadOutcomes :
         fpc' = IF got = "files" THEN "returned" ELSE "none"
    /\ UNCHANGED <<formats, fidx, best_format>>
    /\ UNCHANGED <<resolveVars, tableVars, workerVars, deliverVars, pageVars, handleVars>>

----------------------------------------------------------------------------
\* MediaExtractor._scrape_media_from_page

\* where the hash of a URL string puts it under a seed
HashSlot(c, seed) == (c.name + seed) % MaxCandidates

RECURSIVE ListOf(_, _)
\* list(media_urls): a set is iterated in the order of its elements' hashes
ListOf(S, seed) ==
    IF S = {} THEN <<>>
    ELSE LET x == CHOOSE x \in S : \A y \in S : HashSlot(x, seed) <= HashSlot(y, seed)
         IN <<x>> \o ListOf(S \ {x}, seed)

\* list(media_urls): the orders the set can be iterated in
Orderings(S) == {ListOf(S, seed) : seed \in HashSeeds}

FirstN_uncapped(s, n) == s

\* line 317: [:5]
FirstN(s, n) == SubSeq(s, 1, IF Len(s) < n THEN Len(s) ELSE n)

\* lines 231-236, 255-317: the page GET and the candidate set
scrape_media_from_page ==
    /\ rpc = "scrape"
    /\ sc.pc = "off"
    /\ net' = Append(net, "GET")
    /\ \/ \* the page fetch fails: lines 331-333 return None
          /\ rpc' = AfterScraper(<<>>)
          /\ error' = IF AfterScraper(<<>>) = "raised" THEN NoMediaFound ELSE error
          /\ strategies' = Settle(Invoke(strategies, "scraper"), "none", <<>>)
          /\ sc' = [sc EXCEPT !.pc = "fetch_failed"]
       \/ \E media_urls \in PageSets :
            \E world \in [media_urls -> PageResponses], order \in Orderings(media_urls) :
               /\ sc' = [pc |-> "loop", media_urls |-> media_urls, world |-> world,
                         chosen |-> FirstN(order, MaxDownloads),
                         todo |-> FirstN(order, MaxDownloads), downloaded |-> <<>>]
               /\ strategies' = Invoke(strategies, "scraper")
               /\ UNCHANGED <<rpc, error>>
    /\ UNCHANGED <<url, isDirect, probe, result, dl, tempFiles, fetches>>
    /\ UNCHANGED <<tableVars, workerVars, deliverVars, selectVars, pageVars, handleVars>>

\* lines 82-156 on a response whose stream is not interrupted: the list
\* _download_direct_media returns, <<>> when it raises
FetchStatic(u, resp) ==
    IF \/ resp.status = "error"
       \/ DeclaredTooLarge(resp)
       \/ StreamTooLarge(resp.body)
       \/ IsHtml(resp)
    THEN <<>>
    ELSE <<MediaInfo(0, u, resp, resp.body)>>

RECURSIVE ScrapeLoop(_, _)
\* lines 315-323 as a function of the candidates taken and of what each answers
ScrapeLoop(todo, world) ==
    IF todo = <<>> THEN <<>>
    ELSE FetchStatic(Head(todo), world[Head(todo)]) \o ScrapeLoop(Tail(todo), world)

\* lines 325-329 and the orchestrator's lines 55-58
scrape_return ==
    /\ rpc = "scrape"
    /\ sc.pc = "loop"
    /\ sc.todo = <<>>
    /\ dl.pc = "off"
    /\ rpc' = AfterScraper(sc.downloaded)
    /\ result' = IF sc.downloaded # <<>> THEN sc.downloaded ELSE result
    /\ error' = IF AfterScraper(sc.downloaded) = "raised" THEN NoMediaFound ELSE error
    /\ strategies' = Settle(strategies,
                            IF sc.downloaded # <<>> THEN "found" ELSE "none",
                            sc.downloaded)
    /\ sc' = [sc EXCEPT !.pc = "done"]
    /\ UNCHANGED <<url, isDirect, probe, net, dl, tempFiles, fetches>>
    /\ UNCHANGED <<tableVars, workerVars, deliverVars, selectVars, pageVars, handleVars>>

----------------------------------------------------------------------------
\* MediaExtractor._scrape_media_from_page: the candidates of the page
\* https://x.test/page.html (not a Google Images search: lines 239-253 are
\* skipped)

DataUri == "data:image/png;base64,AAAA"

\* Path(path).suffix.lower() of the path a reference resolves to
Suffix(ref) ==
    CASE ref \in {"b.png", "c.png"} -> ".png"
      [] ref = "v.mp4" -> ".mp4"
      [] ref = "d.txt" -> ".txt"
      [] OTHER -> ""

\* urllib.parse.urljoin(url, ref): a relative reference resolves against the
\* page, a data: URI is returned as it is
urljoin(ref) ==
    IF ref = DataUri
    THEN [scheme |-> "data", netloc |-> "", path |-> ref, ext |-> ""]
    ELSE [scheme |-> "https", netloc |-> "x.test", path |-> ref, ext |-> Suffix(ref)]

\* the values of a width or height attribute; "" is an absent attribute
Dims == {"", "50", "99", "100", "x"}

\* int(): "x" raises ValueError
IsInt(d) == d \in {"50", "99", "100"}

ParseInt(d) ==
    CASE d = "50" -> 50
      [] d = "99" -> 99
      [] d = "100" -> 100

Absent == [tag |-> "none", src |-> "", data_src |-> "", width |-> "", height |-> ""]

Imgs == [tag : {"img"}, src : {"b.png", "d.txt", DataUri}, data_src : {"", "b.png"},
         width : Dims, height : Dims]

\* video and source carry src, a carries href
Others == [tag : {"video", "source", "a"}, src : {"v.mp4", "d.txt"}, data_src : {""},
           width : {""}, height : {""}]

\* <meta property="og:image" content=...>
Metas == [tag : {"meta"}, src : {"c.png", "d.txt", ""}, data_src : {""},
          width : {""}, height : {""}]

Pages == [img : Imgs \cup {Absent}, other : Others \cup {Absent},
          meta : Metas \cup {Absent}]

\* lines 262-270: both attributes present, both integers, one below 100
SkipSmall(img) ==
    /\ img.width # ""
    /\ img.height # ""
    /\ IsInt(img.width)
    /\ IsInt(img.height)
    /\ (ParseInt(img.width) < 100 \/ ParseInt(img.height) < 100)

\* media_urls.add(urljoin(url, ref)), with the block that added it
AddUrl(set, ref, via) == set \cup {[url |-> urljoin(ref), via |-> via]}

\* the steps common to the blocks: the next block, the other variables
NextBlock(from, to) ==
    /\ qpc = from
    /\ qpc' = to
    /\ UNCHANGED soup
    /\ UNCHANGED <<resolveVars, tableVars, workerVars, deliverVars, selectVars, handleVars>>

\* lines 231-236: the page is fetched and parsed
parse_page ==
    /\ qpc = "idle"
    /\ soup' \in Pages
    /\ qpc' = "img"
    /\ collected' = {}
    /\ UNCHANGED <<resolveVars, tableVars, workerVars, deliverVars, selectVars, handleVars>>

\* lines 256-272: img elements with src
find_img_src ==
    /\ NextBlock("img", "data-src")
    /\ collected' =
          IF /\ soup.img.tag = "img"
             /\ soup.img.src # ""
             /\ ~SkipSmall(soup.img)
             /\ is_supported_media(urljoin(soup.img.src))
             /\ urljoin(soup.img.src).scheme # "data"
          THEN AddUrl(collected, soup.img.src, "img")
          ELSE collected

\* lines 275-280: img elements with data-src
find_img_data_src ==
    /\ NextBlock("data-src", "video")
    /\ collected' =
          IF /\ soup.img.tag = "img"
             /\ soup.img.data_src # ""
             /\ is_supported_media(urljoin(soup.img.data_src))
          THEN AddUrl(collected, soup.img.data_src, "data-src")
          ELSE collected

\* lines 283-288, 291-296, 299-304: video src, source src, a href
FindOther(tag) ==
    collected' =
       IF /\ soup.other.tag = tag
          /\ soup.other.src # ""
          /\ is_supported_media(urljoin(soup.other.src))
       THEN AddUrl(collected, soup.other.src, tag)
       ELSE collected

find_video == NextBlock("video", "source") /\ FindOther("video")

find_source == NextBlock("source", "a") /\ FindOther("source")

find_links == NextBlock("a", "og") /\ FindOther("a")

\* lines 307-313: the first og:image meta element
find_og_image ==
    /\ NextBlock("og", "done")
    /\ collected' =
          IF /\ soup.meta.tag = "meta"
             /\ soup.meta.src # ""
             /\ is_supported_media(urljoin(soup.meta.src))
          THEN AddUrl(collected, soup.meta.src, "og:image")
          ELSE collected

\* line 236: media_urls
MediaUrls == {c.url : c \in collected}

----------------------------------------------------------------------------
\* The tracked-message table

EmptyTable == [k \in {} |-> 0]

\* bot.py lines 369-376: the entry carries no 'warned' key, which
\* message_info.get('warned', False) reads as False
Track(table, key, t, filename) ==
    [k \in DOMAIN table \cup {key} |->
        IF k = key
        THEN [message_id |-> key, sent_time |-> t, warned |-> FALSE, filename |-> filename]
        ELSE table[k]]

MarkWarned_not_set(table, k) == table

\* line 60
MarkWarned(table, k) == [table EXCEPT ![k].warned = TRUE]

\* line 74
RemoveKey(table, k) == [j \in DOMAIN table \ {k} |-> table[j]]

RECURSIVE KeysInOrder(_)
\* a dict iterates in insertion order, which is the order of the message ids
KeysInOrder(S) ==
    IF S = {} THEN <<>>
    ELSE LET m == CHOOSE x \in S : \A y \in S : x <= y
         IN <<m>> \o KeysInOrder(S \ {m})

Range(s) == {s[i] : i \in 1..Len(s)}

----------------------------------------------------------------------------
\* TelegramMediaBot._start_auto_delete_timer.auto_delete_worker

delete_threshold == AUTO_DELETE_AFTER_HOURS * 3600

warn_threshold == delete_threshold - WarnWindow

Expired_at_threshold(t, info) == t - info.sent_time >= delete_threshold

\* lines 40-41
Expired(t, info) == t - info.sent_time > delete_threshold

\* lines 48-53
ShouldWarn(t, info) ==
    /\ t - info.sent_time > warn_threshold
    /\ t - info.sent_time < delete_threshold
    /\ ~info.warned

\* asyncio.create_task either schedules the coroutine or raises (RuntimeError
\* when the calling thread has no running event loop)
TaskOutcomes == {"scheduled", "raises"}

IterOff == [src |-> "none", used |-> 0, base |-> {}, todo |-> <<>>]

\* what the running pass iterates: the table itself, or a list made from it
IterSource == IF iter.src = "live" THEN DOMAIN sent_messages ELSE iter.base

\* the clock; a pass takes no time at this granularity and sleep(600) returns on time
Tick ==
    /\ wpc \in {"sleep", "dead"}
    /\ wpc = "sleep" => now < wakeAt
    /\ now + TimeStep <= MaxTime
    /\ now' = now + TimeStep
    /\ UNCHANGED <<sent_messages, nextId, workerVars, resolveVars, deliverVars, selectVars, pageVars, handleVars>>

\* lines 368-376, run by the handler while the worker thread runs
track_sent_message ==
    /\ nextId <= MaxMsgs
    /\ now <= MaxSendTime
    /\ sent_messages' = Track(sent_messages, nextId, now, ".jpg")
    /\ nextId' = nextId + 1
    /\ UNCHANGED <<now, workerVars, resolveVars, deliverVars, selectVars, pageVars, handleVars>>

\* lines 35-39: a new sweep; the first loop iterates self.sent_messages.items()
sweep_begin ==
    /\ \/ wpc = "start"
       \/ wpc = "sleep" /\ now >= wakeAt
    /\ wpc' = "scan"
    /\ current_time' = now
    /\ messages_to_delete' = <<>>
    /\ iter' = [src |-> "live", used |-> Cardinality(DOMAIN sent_messages),
                base |-> DOMAIN sent_messages,
                todo |-> KeysInOrder(DOMAIN sent_messages)]
    /\ warned_in_pass' = {}
    /\ UNCHANGED <<wakeAt, warnings, deleted, tableVars, resolveVars, deliverVars, selectVars, pageVars, handleVars>>

\* lines 39-47: one step of the first loop.  The dict iterator raises
\* RuntimeError when the dict's size is not the size it started with; nothing
\* in the worker catches it, and the thread ends.
scan_next ==
    /\ wpc = "scan"
    /\ IF Cardinality(DOMAIN sent_messages) # iter.used
         THEN /\ wpc' = "dead"
              /\ iter' = IterOff
              /\ UNCHANGED messages_to_delete
         ELSE IF iter.todo = <<>>
         THEN /\ wpc' = "warn"
              /\ iter' = [src |-> "copy", used |-> 0, base |-> DOMAIN sent_messages,
                          todo |-> KeysInOrder(DOMAIN sent_messages)]
              /\ UNCHANGED messages_to_delete
         ELSE /\ messages_to_delete' =
                    IF Expired(current_time, sent_messages[Head(iter.todo)])
                    THEN Append(messages_to_delete, Head(iter.todo))
                    ELSE messages_to_delete
              /\ iter' = [iter EXCEPT !.todo = Tail(@)]
              /\ UNCHANGED wpc
    /\ UNCHANGED <<current_time, wakeAt, warnings, deleted, warned_in_pass, tableVars,
                   resolveVars, deliverVars, selectVars, pageVars, handleVars>>

\* lines 46-68: one step of the warning loop over list(self.sent_messages.items())
warn_next ==
    /\ wpc = "warn"
    /\ IF iter.todo = <<>>
         THEN /\ wpc' = "delete"
              /\ iter' = [src |-> "copy", used |-> 0, base |-> Range(messages_to_delete),
                          todo |-> messages_to_delete]
              /\ UNCHANGED <<warnings, sent_messages, warned_in_pass>>
         ELSE /\ iter' = [iter EXCEPT !.todo = Tail(@)]
              /\ UNCHANGED wpc
              /\ LET k == Head(iter.todo)
                 IN IF ShouldWarn(current_time, sent_messages[k])
                    THEN \E task \in TaskOutcomes :
                           IF task = "scheduled"
                           THEN /\ warnings' = [warnings EXCEPT ![k] = @ + 1]
                                /\ sent_messages' = MarkWarned(sent_messages, k)
                                /\ warned_in_pass' = warned_in_pass \cup {k}
                           ELSE UNCHANGED <<warnings, sent_messages, warned_in_pass>>
                    ELSE UNCHANGED <<warnings, sent_messages, warned_in_pass>>
    /\ UNCHANGED <<current_time, messages_to_delete, wakeAt, deleted, now, nextId,
                   resolveVars, deliverVars, selectVars, pageVars, handleVars>>

\* lines 68-81: one step of the delete loop, then time.sleep(600)
delete_next ==
    /\ wpc = "delete"
    /\ IF iter.todo = <<>>
         THEN /\ wpc' = "sleep"
              /\ wakeAt' = now + SweepInterval
              /\ iter' = IterOff
              /\ UNCHANGED <<deleted, sent_messages>>
         ELSE /\ iter' = [iter EXCEPT !.todo = Tail(@)]
              /\ UNCHANGED <<wpc, wakeAt>>
              /\ LET k == Head(iter.todo)
                 IN \E task \in TaskOutcomes :
                      IF task = "scheduled"
                      THEN /\ deleted' = deleted \cup {k}
                           /\ sent_messages' = RemoveKey(sent_messages, k)
                      ELSE UNCHANGED <<deleted, sent_messages>>
    /\ UNCHANGED <<current_time, messages_to_delete, warnings, warned_in_pass, now, nextId,
                   resolveVars, deliverVars, selectVars, pageVars, handleVars>>

----------------------------------------------------------------------------
\* TelegramMediaBot._process_url and _send_media_file

ImageNames == {".jpg", ".jpeg", ".png", ".gif", ".webp", ".bmp"}

\* what extract_media_from_url hands over: filename stands for the name's
\* extension, valid for the verdict of PIL's verify() on the artifact
Descriptors ==
    {d \in [filename : {".jpg", ".mp4", ""},
            size : {MAX_PHOTO_SIZE, MAX_VIDEO_SIZE + 1},
            type : {"image", "video", "document"},
            valid : BOOLEAN] :
        d.valid => d.filename \in ImageNames}

\* extract_media_from_url returns a non-empty list or raises
ExtractResults == UNION {[1..n -> Descriptors] : n \in 1..MaxMedia}

CallOutcomes == {"ok", "raises"}

\* lines 305-316
CorrectedType(d) ==
    IF d.filename \in ImageNames
    THEN IF d.valid THEN "image" ELSE "document"
    ELSE d.type

DeliveryMode_no_size_switch(d) == CorrectedType(d)

\* lines 319-324
DeliveryMode(d) ==
    IF CorrectedType(d) = "image" /\ d.size > MAX_PHOTO_SIZE
    THEN "document"
    ELSE CorrectedType(d)

\* lines 325-328
VideoTooLarge(d) == CorrectedType(d) = "video" /\ d.size > MAX_VIDEO_SIZE

\* lines 335-366
SendOp(mode) ==
    CASE mode = "image" -> "send_photo"
      [] mode = "video" -> "send_video"
      [] OTHER -> "send_document"

\* how the chat platform answers a send: "Request Entity Too Large" is its
\* rejection of a payload for its size alone
SendOutcomes == {"ok", "Image_process_failed", "Request Entity Too Large", "error"}

FallsBack_on_any_error(op, err) == op = "send_photo"

\* lines 341-353
FallsBack(op, err) == op = "send_photo" /\ err = "Image_process_failed"

CleanupRuns_on_success(success) == success

\* lines 255-257: the finally clause
CleanupRuns(success) == TRUE

\* lines 224-237: reply_text, then extract_media_from_url (which never returns
\* an empty list, so the branch of lines 232-237 is not taken)
process_url ==
    /\ ppc = "idle"
    /\ \/ \* reply_text raises, before the try
          /\ ppc' = "done"
          /\ UNCHANGED <<media_files, files, outcome, cleanups>>
       \/ \* extract_media_from_url raises
          /\ ppc' = "except"
          /\ UNCHANGED <<media_files, files, outcome, cleanups>>
       \/ \E found \in ExtractResults :
            /\ media_files' = found
            /\ files' = DOMAIN found
            /\ outcome' = [i \in DOMAIN found |-> "pending"]
            /\ cleanups' = [i \in DOMAIN found |-> 0]
            /\ ppc' = "found"
    /\ UNCHANGED <<idx, sent_count, media_type, sends, tableAtCall,
                   tableVars, workerVars, resolveVars, selectVars, pageVars, handleVars>>

\* lines 240-245: the "Found N media file(s)" edit
edit_found ==
    /\ ppc = "found"
    /\ \E edit \in CallOutcomes :
         IF edit = "ok"
         THEN ppc' = "loop" /\ idx' = 1 /\ sent_count' = 0
         ELSE ppc' = "except" /\ UNCHANGED <<idx, sent_count>>
    /\ UNCHANGED <<media_files, files, media_type, sends, tableAtCall, outcome,
                   cleanups, tableVars, workerVars, resolveVars, selectVars, pageVars, handleVars>>

\* lines 246-249, 294-331: _send_media_file up to the send
send_media_file ==
    /\ ppc = "loop"
    /\ idx <= Len(media_files)
    /\ sends' = <<>>
    /\ tableAtCall' = sent_messages
    /\ media_type' = DeliveryMode(media_files[idx])
    /\ IF VideoTooLarge(media_files[idx])
         THEN /\ outcome' = [outcome EXCEPT ![idx] = "failed"]
              /\ ppc' = "cleanup"
         ELSE /\ ppc' = "send"
              /\ UNCHANGED outcome
    /\ UNCHANGED <<media_files, idx, sent_count, files, cleanups,
                   tableVars, workerVars, resolveVars, selectVars, pageVars, handleVars>>

\* the end of _send_media_file: lines 368-381 after a sent message, lines
\* 383-388 after a failure, and lines 250-251 of the caller
Sent(op) ==
    /\ sends' = Append(sends, [op |-> op, outcome |-> "ok"])
    /\ sent_messages' = Track(sent_messages, nextId, now, media_files[idx].filename)
    /\ nextId' = nextId + 1
    /\ outcome' = [outcome EXCEPT ![idx] = "sent"]
    /\ sent_count' = sent_count + 1
    /\ ppc' = "cleanup"

NotSent(op, err) ==
    /\ sends' = Append(sends, [op |-> op, outcome |-> err])
    /\ outcome' = [outcome EXCEPT ![idx] = "failed"]
    /\ ppc' = "cleanup"
    /\ UNCHANGED <<sent_messages, nextId, sent_count>>

\* lines 333-366: send_photo, send_video or send_document
send_call ==
    /\ ppc = "send"
    /\ \E got \in SendOutcomes :
         IF got = "ok"
         THEN Sent(SendOp(media_type))
         ELSE IF FallsBack(SendOp(media_type), got)
         THEN /\ sends' = Append(sends, [op |-> SendOp(media_type), outcome |-> got])
              /\ ppc' = "fallback"
              /\ UNCHANGED <<sent_messages, nextId, outcome, sent_count>>
         ELSE NotSent(SendOp(media_type), got)
    /\ UNCHANGED <<media_files, idx, files, media_type, tableAtCall, cleanups,
                   now, workerVars, resolveVars, selectVars, pageVars, handleVars>>

\* lines 346-351: send_document after Image_process_failed
send_fallback ==
    /\ ppc = "fallback"
    /\ \E got \in CallOutcomes :
         IF got = "ok" THEN Sent("send_document") ELSE NotSent("send_document", "error")
    /\ UNCHANGED <<media_files, idx, files, media_type, tableAtCall, cleanups,
                   now, workerVars, resolveVars, selectVars, pageVars, handleVars>>

\* lines 255-257: cleanup_temp_file(media_info['file_path']); os.unlink is
\* taken to succeed
cleanup_temp_file ==
    /\ ppc = "cleanup"
    /\ IF CleanupRuns(outcome[idx] = "sent")
         THEN /\ files' = files \ {idx}
              /\ cleanups' = [cleanups EXCEPT ![idx] = @ + 1]
         ELSE UNCHANGED <<files, cleanups>>
    /\ idx' = idx + 1
    /\ ppc' = IF idx + 1 > Len(media_files) THEN "final" ELSE "loop"
    /\ UNCHANGED <<media_files, sent_count, media_type, sends, tableAtCall, outcome,
                   tableVars, workerVars, resolveVars, selectVars, pageVars, handleVars>>

\* lines 259-267: the final status edit
final_edit ==
    /\ ppc = "final"
    /\ \E edit \in CallOutcomes :
         ppc' = IF edit = "ok" THEN "done" ELSE "except"
    /\ UNCHANGED <<media_files, idx, sent_count, files, media_type, sends,
                   tableAtCall, outcome, cleanups, tableVars, workerVars, resolveVars, selectVars, pageVars, handleVars>>

\* lines 269-279: the handler reports the error; a failure of that edit leaves
\* _process_url as an exception
report_error ==
    /\ ppc = "except"
    /\ ppc' = "done"
    /\ UNCHANGED <<media_files, idx, sent_count, files, media_type, sends,
                   tableAtCall, outcome, cleanups, tableVars, workerVars, resolveVars, selectVars, pageVars, handleVars>>

----------------------------------------------------------------------------
\* TelegramMediaBot.handle_url_message

\* what the pattern of line 207 finds in a message text: every match begins
\* with http:// or https://, the i-th match is named i
Tokens(i) == [scheme : {"https"}, netloc : {"", "x.test"}, name : {i}, ext : {""}]

Texts ==
    UNION {{t \in [1..n -> UNION {Tokens(i) : i \in 1..n}] :
               \A i \in 1..n : t[i].name = i} : n \in 0..MaxTokens}

extract_urls_unvalidated(t) == t

\* lines 204-216: the matches that pass validate_url, in order
extract_urls(t) == SelectSeq(t, validate_url)

HandleFrame ==
    UNCHANGED <<resolveVars, tableVars, workerVars, deliverVars, selectVars, pageVars>>

\* lines 182-198: the message arrives; without a valid URL the handler
\* replies and returns
handle_url_message ==
    /\ hpc = "idle"
    /\ \E t \in Texts :
         /\ text' = t
         /\ IF extract_urls(t) = <<>>
              THEN hpc' = "done" /\ urls' = <<>>
              ELSE hpc' = "loop" /\ urls' = FirstN(extract_urls(t), MaxUrls)
    /\ UNCHANGED hlog
    /\ HandleFrame

\* lines 201-202, 218-227: the next URL of urls[:3]; _process_url begins with
\* reply_text, outside its try
process_url_begin ==
    /\ hpc = "loop"
    /\ urls # <<>>
    /\ \E reply \in {"ok", "raises"} :
         IF reply = "ok"
         THEN /\ hlog' = Append(hlog, [ev |-> "begin", url |-> Head(urls)])
              /\ hpc' = "extract"
         ELSE /\ hlog' = hlog \o <<[ev |-> "begin", url |-> Head(urls)],
                                   [ev |-> "end", url |-> Head(urls)]>>
              /\ hpc' = "raised"
    /\ UNCHANGED <<text, urls>>
    /\ HandleFrame

\* line 230: extract_media_from_url(url)
process_url_extract ==
    /\ hpc = "extract"
    /\ hlog' = Append(hlog, [ev |-> "resolve", url |-> Head(urls)])
    /\ hpc' = "rest"
    /\ UNCHANGED <<text, urls>>
    /\ HandleFrame

\* lines 232-279: _process_url returns, or the edit of its except block
\* raises and the exception leaves handle_url_message
process_url_end ==
    /\ hpc = "rest"
    /\ hlog' = Append(hlog, [ev |-> "end", url |-> Head(urls)])
    /\ \E ended \in {"returns", "raises"} :
         IF ended = "returns"
         THEN /\ urls' = Tail(urls)
              /\ hpc' = IF Tail(urls) = <<>> THEN "done" ELSE "loop"
         ELSE /\ hpc' = "raised"
              /\ UNCHANGED urls
    /\ UNCHANGED text
    /\ HandleFrame

----------------------------------------------------------------------------
\* The state after TelegramMediaBot() is constructed

InitResolve ==
    /\ rpc = "idle"
    /\ url = NoUrl
    /\ isDirect = "unknown"
    /\ probe = "none"
    /\ strategies = <<>>
    /\ net = <<>>
    /\ result = <<>>
    /\ error = ""
    /\ dl = DlOff
    /\ sc = ScOff
    /\ tempFiles = {}
    /\ fetches = <<>>

InitTracker ==
    /\ now = 0
    /\ sent_messages = EmptyTable
    /\ nextId = 1
    /\ wpc = "start"
    /\ current_time = 0
    /\ iter = IterOff
    /\ messages_to_delete = <<>>
    /\ wakeAt = 0
    /\ warnings = [k \in 1..MaxMsgs |-> 0]
    /\ deleted = {}
    /\ warned_in_pass = {}

InitDeliver ==
    /\ ppc = "idle"
    /\ media_files = <<>>
    /\ idx = 0
    /\ sent_count = 0
    /\ files = {}
    /\ media_type = ""
    /\ sends = <<>>
    /\ tableAtCall = EmptyTable
    /\ outcome = <<>>
    /\ cleanups = <<>>

InitSelect ==
    /\ fpc = "idle"
    /\ formats = <<>>
    /\ fidx = 1
    /\ best_format = 0
    /\ ydl = <<>>

InitPage ==
    /\ qpc = "idle"
    /\ soup = [img |-> Absent, other |-> Absent, meta |-> Absent]
    /\ collected = {}

InitHandle ==
    /\ hpc = "idle"
    /\ text = <<>>
    /\ urls = <<>>
    /\ hlog = <<>>

Init == InitResolve /\ InitTracker /\ InitDeliver /\ InitSelect /\ InitPage /\ InitHandle

NextResolve ==
    \/ \E u \in Urls : extract_media_from_url(u)
    \/ is_direct_media_url
    \/ download_direct_media
    \/ iter_content
    \/ finish_download
    \/ extract_with_ytdlp
    \/ scrape_media_from_page
    \/ scrape_return

NextTracker ==
    \/ Tick
    \/ track_sent_message
    \/ sweep_begin
    \/ scan_next
    \/ warn_next
    \/ delete_next

NextDeliver ==
    \/ process_url
    \/ edit_found
    \/ send_media_file
    \/ send_call
    \/ send_fallback
    \/ cleanup_temp_file
    \/ final_edit
    \/ report_error

\* one call of extract_media_from_url
SpecResolve == Init /\ [][NextResolve]_vars

\* the sweep thread and the handler's inserts
SpecTracker == Init /\ [][NextTracker]_vars

\* one call of _process_url
SpecDeliver == Init /\ [][NextDeliver]_vars

NextSelect ==
    \/ extract_info
    \/ select_format
    \/ select_fallback
    \/ ydl_download

SpecSelect == Init /\ [][NextSelect]_vars

NextPage ==
    \/ parse_page
    \/ find_img_src
    \/ find_img_data_src
    \/ find_video
    \/ find_source
    \/ find_links
    \/ find_og_image

SpecPage == Init /\ [][NextPage]_vars

NextHandle ==
    \/ handle_url_message
    \/ process_url_begin
    \/ process_url_extract
    \/ process_url_end

SpecHandle == Init /\ [][NextHandle]_vars

----------------------------------------------------------------------------
\* Properties of extract_media_from_url (SpecResolve)

Rank(name) ==
    CASE name = "direct" -> 1
      [] name = "platform" -> 2
      [] name = "scraper" -> 3

ValidSyntax == url.scheme # "" /\ url.netloc # ""

Finished == rpc \in {"returned", "raised"}

\* C1: the strategies are invoked in the order direct fetcher, platform
\* extractor, page scraper, the direct fetcher only after the classifier
\* answered true; a strategy that returned a non-empty list is the last one
\* invoked and its list is the result.
C1_StrategyOrder ==
    /\ \A i, j \in 1..Len(strategies) :
          i < j => Rank(strategies[i].name) < Rank(strategies[j].name)
    /\ \A i \in 1..Len(strategies) :
          /\ strategies[i].name = "direct" => isDirect = "yes"
          /\ strategies[i].status = "found" =>
                /\ i = Len(strategies)
                /\ strategies[i].found # <<>>
                /\ rpc = "returned"
                /\ result = strategies[i].found

\* the platform extractor found media: the scraper is never invoked
C1_Witness ==
    /\ rpc = "returned"
    /\ Len(strategies) = 1
    /\ strategies[1].name = "platform"
    /\ result # <<>>

NothingFound ==
    /\ Finished
    /\ ValidSyntax
    /\ \A i \in 1..Len(strategies) : strategies[i].status \in {"none", "raised"}

\* C2 as stated: for a valid URL, when every strategy yields nothing or
\* raises, the call ends with the aggregate "no supported media found" failure.
C2_AlwaysAggregateFailure ==
    NothingFound => (rpc = "raised" /\ error = NoMediaFound)

\* C2 as amended: when the classifier rejects the URL and the platform
\* extractor and the page scraper both yield nothing, the call ends with the
\* aggregate failure; when the classifier accepts the URL and the direct
\* fetcher raises, the call ends with the direct fetcher's own failure and no
\* other strategy is invoked.
C2_FailureReported ==
    NothingFound =>
        /\ rpc = "raised"
        /\ IF isDirect = "yes"
             THEN /\ Len(strategies) = 1
                  /\ strategies[1].name = "direct"
                  /\ fetches # <<>>
                  /\ error = fetches[Len(fetches)].outcome
                  /\ error # NoMediaFound
             ELSE /\ Len(strategies) = 2
                  /\ strategies[1].name = "platform"
                  /\ strategies[2].name = "scraper"
                  /\ error = NoMediaFound

\* both fallback strategies ran, every candidate of the page failed
C2_Witness ==
    /\ rpc = "raised"
    /\ error = NoMediaFound
    /\ Len(strategies) = 2
    /\ fetches # <<>>

\* C3: a URL that lacks a scheme or a host is rejected with the invalid-URL
\* failure and no network operation is issued for it.
C3_InvalidUrlRejected ==
    (rpc # "idle" /\ (url.scheme = "" \/ url.netloc = "")) =>
        /\ rpc = "raised"
        /\ error = InvalidURL
        /\ net = <<>>
        /\ strategies = <<>>
        /\ tempFiles = {}

\* a URL with a scheme and no host was rejected
C3_Witness ==
    /\ rpc = "raised"
    /\ error = InvalidURL
    /\ url.scheme # ""
    /\ url.netloc = ""

DirectFiles == {f \in tempFiles : f.by = "direct"}

DescriptorsOut == Range(result) \cup Range(sc.downloaded)

\* C10: a response whose body exceeds the document ceiling makes
\* _download_direct_media fail; no descriptor and no artifact exists for its
\* URL, and no artifact of the direct fetcher is larger than the ceiling.
C10_OversizeNeverPersisted ==
    /\ \A f \in DirectFiles : f.size <= MAX_DOCUMENT_SIZE
    /\ \A i \in 1..Len(fetches) :
          fetches[i].body > MAX_DOCUMENT_SIZE =>
             /\ fetches[i].outcome # "ok"
             /\ \A f \in DirectFiles : f.url # fetches[i].url
             /\ \A d \in DescriptorsOut : d.url # fetches[i].url
    /\ (dl.pc = "stream" /\ dl.resp.body > MAX_DOCUMENT_SIZE) =>
          /\ dl.content <= MAX_DOCUMENT_SIZE
          /\ \A f \in DirectFiles : f.url # dl.url

\* an oversize body without a truthful content-length was cut off in the stream
C10_Witness ==
    \E i \in 1..Len(fetches) :
       /\ fetches[i].body > MAX_DOCUMENT_SIZE
       /\ fetches[i].outcome = TooLargeStreamed

----------------------------------------------------------------------------
\* Properties of the sweep (SpecTracker)

\* C4 as stated: when a sweep has ended, every entry it found expired had a
\* delete request issued and is no longer in the table.
C4_ExpiredRemovedInSweep ==
    wpc = "sleep" =>
        \A k \in Range(messages_to_delete) :
            k \in deleted /\ k \notin DOMAIN sent_messages

\* C5: a warning is scheduled only for an entry that has had none and whose
\* warned flag is false, and scheduling it sets the flag.
C5_WarnedAtMostOnce ==
    [][\A k \in 1..MaxMsgs :
          warnings'[k] # warnings[k] =>
             /\ warnings[k] = 0
             /\ warnings'[k] = 1
             /\ ~sent_messages[k].warned
             /\ sent_messages'[k].warned]_vars

\* a warned entry is met again by a later sweep, which finds it expired
C5_Witness ==
    /\ wpc = "delete"
    /\ \E k \in Range(messages_to_delete) :
          /\ k \in DOMAIN sent_messages
          /\ warnings[k] = 1
          /\ sent_messages[k].warned

\* C6 as stated: what a running pass iterates is what the table held when the
\* pass began.
C6_PassIteratesSnapshot ==
    wpc \in {"scan", "warn", "delete"} => IterSource = iter.base

----------------------------------------------------------------------------
\* Properties of _process_url (SpecDeliver)

\* C7 as stated: when _process_url has finished, no artifact of the
\* descriptors it received is left on disk.
C7_ArtifactsCleaned ==
    ppc = "done" => files = {}

\* C8: in the send loop the cleanup of a descriptor runs once, after its
\* _send_media_file call has ended, whether or not the delivery succeeded.
C8_CleanupOnceAfterSend ==
    \A i \in 1..Len(media_files) :
       /\ cleanups[i] <= 1
       /\ cleanups[i] = 1 => (outcome[i] # "pending" /\ i \notin files)
       /\ (outcome[i] # "pending" /\ ~(ppc = "cleanup" /\ idx = i)) => cleanups[i] = 1
       /\ outcome[i] = "pending" => i \in files

\* the delivery of a descriptor failed and its artifact was cleaned up
C8_Witness ==
    \E i \in 1..Len(media_files) :
       /\ outcome[i] = "failed"
       /\ sends # <<>>
       /\ cleanups[i] = 1
       /\ i \notin files

InsertedOnlyAfterSent ==
    sent_messages # tableAtCall =>
        /\ sends # <<>>
        /\ sends[Len(sends)].outcome = "ok"
        /\ DOMAIN sent_messages = DOMAIN tableAtCall \cup {nextId - 1}

\* C9 as stated: an entry is inserted only after a send returned a sent
\* message; a send that raises is the last send of the call and leaves the
\* table unchanged.
C9_NoRetryAfterFailedSend ==
    /\ InsertedOnlyAfterSent
    /\ \A i \in 1..Len(sends) :
          sends[i].outcome # "ok" =>
             (i = Len(sends) /\ sent_messages = tableAtCall)

\* C9 as amended: an entry is inserted only after a send returned a sent
\* message; a send that raises is the last send of the call and leaves the
\* table unchanged, except that a send_photo rejected with
\* Image_process_failed is followed by one send_document of the same file,
\* whose sent message is tracked.
C9_RetryOnlyAfterImageProcessFailed ==
    /\ InsertedOnlyAfterSent
    /\ \A i \in 1..Len(sends) :
          sends[i].outcome # "ok" =>
             \/ i = Len(sends) /\ sent_messages = tableAtCall
             \/ /\ i = 1
                /\ sends[1] = [op |-> "send_photo", outcome |-> "Image_process_failed"]
                /\ Len(sends) = 2
                /\ sends[2].op = "send_document"
    /\ (ppc = "cleanup" /\ sends = <<>>) => sent_messages = tableAtCall

\* a send raised, or an oversize video was rejected: nothing was tracked
C9_Witness ==
    /\ ppc = "cleanup"
    /\ outcome[idx] = "failed"
    /\ Len(sends) = 1
    /\ sends[1].outcome = "error"
    /\ sent_messages = tableAtCall

----------------------------------------------------------------------------
\* Direct fetcher on HTML responses

\* a received response announces HTML in its content-type header or carries
\* an <html tag in its leading bytes
IndicatesHtml(r) == r.status = "ok" /\ (r.content_type = "text/html" \/ r.html)

HtmlLeavesNothing ==
    /\ \A i \in 1..Len(fetches) :
          IndicatesHtml(fetches[i].resp) =>
             /\ fetches[i].outcome # "ok"
             /\ \A f \in DirectFiles : f.url # fetches[i].url
             /\ \A d \in DescriptorsOut : d.url # fetches[i].url
    /\ (dl.pc = "stream" /\ IndicatesHtml(dl.resp)) =>
          \A f \in DirectFiles : f.url # dl.url

----------------------------------------------------------------------------
\* Platform extractor failures

\* C12: when the platform extractor fails it returns nothing without raising,
\* and the orchestrator goes on to the page scraper: a platform strategy that
\* ended with nothing is never the end of the call, the scraper is about to
\* be invoked or is the next strategy invoked.
C12_PlatformFailureFallsThrough ==
    \A i \in 1..Len(strategies) :
       (strategies[i].name = "platform" /\ strategies[i].status # "found") =>
          /\ strategies[i].status = "none"
          /\ \/ Len(strategies) = i /\ rpc = "scrape" /\ sc.pc = "off" /\ error = ""
             \/ Len(strategies) > i /\ strategies[i + 1].name = "scraper"

C12_Witness ==
    /\ Len(strategies) = 2
    /\ strategies[1].name = "platform"
    /\ strategies[1].status = "none"
    /\ strategies[2].name = "scraper"
    /\ strategies[2].status = "found"
    /\ rpc = "returned"

----------------------------------------------------------------------------
\* Page fetch failure in the scraper

\* C13 as stated: when the scraper's page fetch fails, the failure leaves the
\* scraper as an error: the call ends with the fetch failure, not with the
\* "no supported media found" of a scraper that found nothing.
C13_PageFetchFailurePropagates ==
    sc.pc = "fetch_failed" =>
       /\ strategies[Len(strategies)].status = "raised"
       /\ rpc = "raised"
       /\ error = FetchError

----------------------------------------------------------------------------
\* The classifier's probe

\* C20: a HEAD probe that raises makes _check_content_type answer "not
\* media": the direct fetcher is never invoked for that URL and the platform
\* extractor is the next step, without any failure raised by the classifier.
C20_ProbeErrorSwallowed ==
    probe = "raises" =>
       /\ ~is_supported_media(url)
       /\ isDirect = "no"
       /\ \A i \in 1..Len(strategies) : strategies[i].name # "direct"
       /\ \/ rpc = "ytdlp" /\ strategies = <<>> /\ error = ""
          \/ strategies # <<>> /\ strategies[1].name = "platform"

C20_Witness ==
    /\ probe = "raises"
    /\ strategies # <<>>
    /\ strategies[1].name = "platform"
    /\ net[1] = "HEAD"
    /\ net[2] = "ENGINE"

----------------------------------------------------------------------------
\* The scraper's download loop

DistinctUrls(media) ==
    \A i, j \in 1..Len(media) : media[i].url = media[j].url => i = j

\* C14: the scraper hands at most 5 candidate URLs to the direct fetcher and
\* returns at most 5 descriptors, no two of them with the same source URL.
C14_AtMostFiveDistinct ==
    /\ Len(sc.chosen) <= 5
    /\ sc.pc # "off" => Len(fetches) <= 5
    /\ Cardinality({i \in 1..Len(net) : net[i] = "GET"}) <= 1 + 5
    /\ Len(sc.downloaded) <= 5
    /\ DistinctUrls(sc.downloaded)
    /\ (rpc = "returned" /\ sc.pc = "done") =>
          /\ result = sc.downloaded
          /\ Len(result) <= 5
          /\ DistinctUrls(result)

\* a page with more than 5 candidates, all of which would answer with an
\* image, ended with 5 descriptors
C14_Witness ==
    /\ sc.pc = "done"
    /\ rpc = "returned"
    /\ Cardinality(sc.media_urls) > 5
    /\ \A c \in sc.media_urls : sc.world[c].status = "ok"
    /\ Len(result) = 5

\* the URLs of the fetches that ended well, in the order they were made
RECURSIVE FetchedOk(_)
FetchedOk(log) ==
    IF log = <<>> THEN <<>>
    ELSE IF log[1].outcome = "ok" THEN <<log[1].url>> \o FetchedOk(Tail(log))
         ELSE FetchedOk(Tail(log))

\* C15: a failure of the direct fetcher on one candidate does not stop the
\* loop: the candidates are fetched one after the other in the chosen order,
\* every chosen candidate is fetched before the scraper returns, the
\* descriptors are exactly those of the candidates whose fetch succeeded, and
\* the scraper yields nothing only when every fetch failed.
C15_FailuresAreSkipped ==
    sc.pc \in {"loop", "done"} =>
       /\ Len(fetches) <= Len(sc.chosen)
       /\ \A i \in 1..Len(fetches) : fetches[i].url = sc.chosen[i]
       /\ Len(sc.todo) + Len(fetches) = Len(sc.chosen)
       /\ [i \in 1..Len(sc.downloaded) |-> sc.downloaded[i].url] = FetchedOk(fetches)
       /\ sc.pc = "done" =>
             /\ Len(fetches) = Len(sc.chosen)
             /\ rpc = "returned" <=> FetchedOk(fetches) # <<>>
             /\ rpc = "returned" => result = sc.downloaded
             /\ rpc = "raised" <=> \A i \in 1..Len(fetches) : fetches[i].outcome # "ok"

\* a candidate failed and a later candidate was fetched and returned
C15_Witness ==
    /\ sc.pc = "done"
    /\ rpc = "returned"
    /\ \E i, j \in 1..Len(fetches) :
          /\ i < j
          /\ fetches[i].outcome # "ok"
          /\ fetches[j].outcome = "ok"
          /\ \E k \in 1..Len(result) : result[k].url = fetches[j].url

----------------------------------------------------------------------------
\* Running the extraction again

KindAndSize(media) ==
    [i \in 1..Len(media) |-> [type |-> media[i].type, size |-> media[i].size]]

Occurrences(s, x) == Cardinality({i \in 1..Len(s) : s[i] = x})

\* the same descriptors with respect to kind and size, in any order
SameKindsAndSizes(a, b) ==
    \A x \in Range(KindAndSize(a)) \cup Range(KindAndSize(b)) :
       Occurrences(KindAndSize(a), x) = Occurrences(KindAndSize(b), x)

\* no fetch of the finished run was cut short by the network
Undisturbed ==
    \A i \in 1..Len(fetches) :
       fetches[i].outcome = "ok" <=> FetchStatic(fetches[i].url, fetches[i].resp) # <<>>

\* C16 as stated: a second run on the same page, whose candidates answer as
\* before, yields descriptors of the same kinds and sizes as the first run,
\* whatever order the second run iterates the candidate set in, also when the
\* page offers more than 5 candidates.
C16_RerunSameDescriptors ==
    (sc.pc = "done" /\ Undisturbed) =>
       \A seed \in HashSeeds :
          SameKindsAndSizes(sc.downloaded,
                            ScrapeLoop(FirstN(ListOf(sc.media_urls, seed), MaxDownloads),
                                       sc.world))

----------------------------------------------------------------------------
\* Delivery and payload size

\* C17 as stated: when the chat platform rejects send_photo for the size of
\* the payload alone, _send_media_file sends the same file with send_document
\* before the delivery is reported as failed.
C17_SizeRejectionRetried ==
    (/\ ppc = "cleanup"
     /\ sends # <<>>
     /\ sends[1].op = "send_photo"
     /\ sends[1].outcome = "Request Entity Too Large") =>
       /\ Len(sends) = 2
       /\ sends[2].op = "send_document"

\* C18: for a descriptor classified as image whose size exceeds the photo
\* ceiling, _send_media_file switches to document mode before any send:
\* send_photo is never called and the one send made is send_document.
C18_OversizeImageAsDocument ==
    (/\ ppc \in {"send", "fallback", "cleanup"}
     /\ media_files[idx].type = "image"
     /\ media_files[idx].size > MAX_PHOTO_SIZE) =>
       /\ media_type = "document"
       /\ ppc # "fallback"
       /\ Len(sends) <= 1
       /\ \A i \in 1..Len(sends) : sends[i].op = "send_document"
       /\ ppc = "cleanup" => Len(sends) = 1

\* a valid image file above the photo ceiling was delivered by send_document
C18_Witness ==
    /\ ppc = "cleanup"
    /\ media_files[idx].type = "image"
    /\ media_files[idx].valid
    /\ media_files[idx].size > MAX_PHOTO_SIZE
    /\ sends = <<[op |-> "send_document", outcome |-> "ok"]>>
    /\ outcome[idx] = "sent"

----------------------------------------------------------------------------
\* The platform extractor's selection

\* a rendition whose declared size, or approximate size when none is
\* declared, is known and within the video budget
WithinBudget(fmt) ==
    \/ fmt.filesize # 0 /\ fmt.filesize <= MAX_VIDEO_SIZE
    \/ fmt.filesize = 0 /\ fmt.filesize_approx # 0 /\ fmt.filesize_approx <= MAX_VIDEO_SIZE

SelectionMade == fpc \in {"download", "returned", "none"} /\ formats # <<>>

----------------------------------------------------------------------------
\* Warnings, deletions and the life of the worker (SpecTracker)

\* C21 as stated: every entry a sweep issued a delete for had a warning
\* scheduled before: no entry goes from unwarned to deleted.
C21_DeletedWereWarned ==
    \A k \in deleted : warnings[k] >= 1

\* C23 as stated: nothing that happens inside a sweep pass ends the worker
\* loop.
C23_WorkerNeverStops ==
    wpc # "dead"

\* the time an entry had been tracked when the running pass began
Elapsed(k) == current_time - sent_messages[k].sent_time

InWarningWindow(k) == Elapsed(k) > 3600 - 300 /\ Elapsed(k) < 3600

\* C24: a delete is issued for, and an entry removed, only when its elapsed
\* time exceeds the expiry threshold; an entry that is neither expired nor
\* inside the warning window is left as it is; no pass both warns and
\* deletes the same entry.
C24_SweepTouchesOnlyDue ==
    [][/\ \A k \in DOMAIN sent_messages :
             /\ (k \in deleted' \ deleted \/ k \notin DOMAIN sent_messages') =>
                   (wpc = "delete" /\ Elapsed(k) > 3600)
             /\ (~(Elapsed(k) > 3600) /\ ~InWarningWindow(k)) =>
                   (k \in DOMAIN sent_messages' /\ sent_messages'[k] = sent_messages[k])
       /\ \A k \in deleted' \ deleted : k \notin warned_in_pass]_vars

\* one pass removed an expired entry and warned about another one, which it
\* left in the table
C24_Witness ==
    /\ wpc = "sleep"
    /\ deleted # {}
    /\ \E k \in warned_in_pass :
          /\ k \in DOMAIN sent_messages
          /\ InWarningWindow(k)
          /\ sent_messages[k].warned

----------------------------------------------------------------------------
\* The candidates of a page (SpecPage)

\* an attribute that declares an integer below 100
DeclaredBelow(d) == d \in {"50", "99"}

ScenarioB ==
    [img |-> [tag |-> "img", src |-> "b.png", data_src |-> "", width |-> "50",
              height |-> "50"],
     other |-> Absent,
     meta |-> [tag |-> "meta", src |-> "c.png", data_src |-> "", width |-> "",
               height |-> ""]]

\* C22 as stated: an img whose declared width is below 100, or whose
\* declared height is below 100, adds no candidate through its src; the
\* og:image content with a supported extension is a candidate; the page of
\* Scenario B yields exactly c.png.
C22_SmallImagesSkipped ==
    qpc = "done" =>
       /\ (/\ soup.img.tag = "img"
           /\ (DeclaredBelow(soup.img.width) \/ DeclaredBelow(soup.img.height))) =>
             \A c \in collected : c.via # "img"
       /\ (soup.meta.tag = "meta" /\ soup.meta.src \in {"b.png", "c.png", "v.mp4"}) =>
             urljoin(soup.meta.src) \in MediaUrls
       /\ soup = ScenarioB =>
             MediaUrls = {[scheme |-> "https", netloc |-> "x.test", path |-> "c.png",
                           ext |-> ".png"]}

----------------------------------------------------------------------------
\* One inbound message (SpecHandle)

IsValidToken(u) == u.scheme # "" /\ u.netloc # ""

ValidTokens == SelectSeq(text, IsValidToken)

IsBegin(e) == e.ev = "begin"

Begun == SelectSeq(hlog, IsBegin)

\* C25: for one message at most the first 3 valid URLs are processed, in
\* their order of appearance; a _process_url begins only when the previous
\* one has ended, each resolution lies between the begin and the end of its
\* own _process_url; a message without a valid URL causes no resolution.
C25_FirstThreeInTurn ==
    /\ Len(Begun) <= 3
    /\ Len(Begun) <= Len(ValidTokens)
    /\ \A i \in 1..Len(Begun) : Begun[i].url = ValidTokens[i]
    /\ \A i \in 1..Len(hlog) :
          /\ (hlog[i].ev = "begin" /\ i > 1) => hlog[i - 1].ev = "end"
          /\ hlog[i].ev = "resolve" =>
                (i > 1 /\ hlog[i - 1] = [ev |-> "begin", url |-> hlog[i].url])
          /\ hlog[i].ev = "end" =>
                (i > 1 /\ hlog[i - 1].ev \in {"begin", "resolve"}
                       /\ hlog[i - 1].url = hlog[i].url)
    /\ (hpc # "idle" /\ ValidTokens = <<>>) => (hlog = <<>> /\ hpc = "done")
    /\ (hpc = "done" /\ Len(ValidTokens) >= 3) => Len(Begun) = 3

\* a message with four valid URLs and an invalid one before the third of
\* them: three were processed, the invalid one and the fourth were not
C25_Witness ==
    /\ hpc = "done"
    /\ Len(text) = 5
    /\ Len(ValidTokens) = 4
    /\ ~IsValidToken(text[3])
    /\ Len(Begun) = 3
    /\ Begun[3].url = text[4]
    /\ Len(hlog) = 9

====
